---- MODULE Spec2Model ----
(***************************************************************************)
(* The moving-average-crossover backtest engine of                         *)
(* BacktestResultViewSet._execute_backtest (src/backend/strategies/views.py *)
(* and its older copy src/strategies/views.py), as a state machine that    *)
(* walks one bar series bar by bar.                                        *)
(*                                                                         *)
(* Units.  Prices and the engine's float amounts (cash, portfolio_value,   *)
(* peak_value) are integers counting TICKS; a tick is 1/Scale of 0.01, the *)
(* smallest amount a DecimalField(decimal_places=2) stores.  Stored money  *)
(* fields are integers counting 0.01 (CENTS); stored percentages count     *)
(* 0.01 %.  round(x, 2) is Round2: the nearest cent, halves to even.       *)
(* Float arithmetic is modelled as exact rational arithmetic.              *)
(* Dates are bar numbers 1..Len(closes): the series is strictly increasing *)
(* in date.  The loop index i is 1-based (Python's i plus one).            *)
(***************************************************************************)
EXTENDS Integers, Sequences, FiniteSets

\* ---------------------------------------------------------------- bounds
MaxBars == 6

\* Ticks per cent: prices carry more digits than the two the fields store.
Scale == 3

\* Closing prices of the bars, in ticks.
Prices == {4, 5, 8}

\* (short_period, long_period) pairs.
Windows == {<<1, 2>>, <<2, 3>>}

\* (stop_loss_percentage, take_profit_percentage) pairs, whole percents.
RiskPcts == {<<10, 50>>, <<25, 100>>}

\* starting_amount, in cents.
StartingAmounts == {0, 1, 4}

\* Dollar-sized runs with the percentages the serializer and the management
\* command use (stop 1 %, take-profit 50 %) and 100.00 of starting cash; the
\* closes are in cents.  A position is entered at 100.00 on bar 4 and the
\* close falls to 99.00 on bar 5, or to 99.50 and then 99.00; the third run
\* has its only golden cross at a close of 101.00; the fourth runs over the
\* closes 10, 11, 12, 9, 14.
Scenarios ==
    {[close |-> <<9800, 9800, 9800, 10000, 9900>>, windows |-> <<2, 3>>,
      risk |-> <<1, 50>>, starting_amount |-> 10000],
     [close |-> <<9800, 9800, 9800, 10000, 9950, 9900>>, windows |-> <<2, 3>>,
      risk |-> <<1, 50>>, starting_amount |-> 10000],
     [close |-> <<10100, 10000, 10100>>, windows |-> <<1, 2>>,
      risk |-> <<1, 50>>, starting_amount |-> 10000],
     [close |-> <<1000, 1100, 1200, 900, 1400>>, windows |-> <<2, 3>>,
      risk |-> <<1, 50>>, starting_amount |-> 10000]}

\* Snapshot rows a concurrently executing run creates at most.
MaxOtherRows == 1

\* total_portfolio_value of the snapshots of a concurrently executing run,
\* in cents.
OtherValues == {0, 7}

\* Who calls _execute_backtest: run_backtest hands over the serializer's
\* validated_data, in which a percentage sent with the request is a
\* decimal.Decimal (DecimalField); the management command hands over a dict
\* of floats, as does a request that leaves both percentages to their float
\* defaults.
Callers == {"run_backtest", "command"}

\* Which copy of the engine runs.
Engines == {"backend", "legacy"}

VARIABLES
    engine,          \* which views.py is executing
    params,          \* the params dict of this run
    closes,          \* stock_data['Close'], oldest first
    pc,              \* position of the run inside _execute_backtest
    i,               \* loop index (1-based)
    cash,            \* ticks
    position,        \* NoPosition (None) or the position dict
    portfolio_value, \* ticks
    peak_value,      \* ticks
    trades_count,
    results,         \* BacktestResult rows of this run (0 or 1)
    trades,          \* Trade rows of this run, in creation order
    snapshots,       \* DailyPortfolioSnapshot rows of this run, by date
    others           \* the rows other runs have in the three tables, per run

vars == <<engine, params, closes, pc, i, cash, position, portfolio_value,
          peak_value, trades_count, results, trades, snapshots, others>>

\* ------------------------------------------------------------- arithmetic
\* n/d rounded to the nearest integer, halves to the even neighbour (d > 0).
RoundHalfEven(n, d) ==
    LET q == n \div d
        r == n % d
    IN  IF 2 * r < d THEN q
        ELSE IF 2 * r > d THEN q + 1
        ELSE IF q % 2 = 0 THEN q ELSE q + 1

\* round(x, 2) of an amount of x ticks, in cents.
Round2(x) == RoundHalfEven(x, Scale)

\* round(num / den * 100, 2), in 0.01 % (den # 0).
PctRound2(num, den) ==
    IF den > 0 THEN RoundHalfEven(num * 10000, den)
    ELSE RoundHalfEven(-(num * 10000), -den)

\* int(a / b) for b > 0: truncation towards zero.
IntDiv(a, b) == IF a >= 0 THEN a \div b ELSE -((-a) \div b)

Min(a, b) == IF a <= b THEN a ELSE b

RECURSIVE SumCloses(_, _, _)
SumCloses(s, lo, hi) == IF lo > hi THEN 0 ELSE s[hi] + SumCloses(s, lo, hi - 1)

\* --------------------------------------------------------- moving averages
\* Close.rolling(w).mean() at bar k is NaN until w bars have been seen.
SMADefined(w, k) == k >= w

\* Variant: the newest w - 1 closes only.
SMASumShortWindow(w, k) == SumCloses(closes, k - w + 2, k)

\* w times the rolling mean at bar k (the sum of the last w closes).
SMASum(w, k) == SumCloses(closes, k - w + 1, k)

IsNaNRow(k) ==
    ~SMADefined(params.short_period, k) \/ ~SMADefined(params.long_period, k)

\* SMA_short < SMA_long at bar k, both defined (means compared exactly).
ShortBelowLong(k) ==
    SMASum(params.short_period, k) * params.long_period
        < SMASum(params.long_period, k) * params.short_period

ShortAboveLong(k) ==
    SMASum(params.short_period, k) * params.long_period
        > SMASum(params.long_period, k) * params.short_period

\* ------------------------------------------------------------------ state
NoPosition == [quantity |-> 0, entry_price |-> 0, entry_date |-> 0]

NumBars == Len(closes)

StartingTicks == params.starting_amount * Scale

\* float * Decimal raises TypeError: the stop/take-profit prices can only be
\* computed when the percentages are floats.
PercentagesAreDecimal == params.caller = "run_backtest"

\* Any series of at most m bars over Prices with any of the small
\* configurations.
SmallInputsUpTo(m) ==
    /\ closes \in UNION {[1..n -> Prices] : n \in 0..m}
    /\ \E w \in Windows, r \in RiskPcts, a \in StartingAmounts, c \in Callers :
          params = [short_period |-> w[1], long_period |-> w[2],
                    stop_loss_percentage |-> r[1],
                    take_profit_percentage |-> r[2],
                    starting_amount |-> a, caller |-> c]

\* One of the dollar-sized runs, by either caller.
ScenarioInputs ==
    \E sc \in Scenarios, c \in Callers :
        /\ closes = [k \in 1..Len(sc.close) |-> sc.close[k] * Scale]
        /\ params = [short_period |-> sc.windows[1],
                     long_period |-> sc.windows[2],
                     stop_loss_percentage |-> sc.risk[1],
                     take_profit_percentage |-> sc.risk[2],
                     starting_amount |-> sc.starting_amount, caller |-> c]

SmallInputs == SmallInputsUpTo(MaxBars)

\* _execute_backtest is entered: nothing of the run exists yet.
NotStarted ==
    /\ pc = "start"
    /\ i = 0
    /\ cash = 0
    /\ position = NoPosition
    /\ portfolio_value = 0
    /\ peak_value = 0
    /\ trades_count = 0
    /\ results = <<>>
    /\ trades = <<>>
    /\ snapshots = <<>>

Init ==
    /\ engine \in Engines
    /\ SmallInputs \/ ScenarioInputs
    /\ NotStarted
    /\ others = <<>>

\* ------------------------------------------------- start of _execute_backtest
\* The BacktestResult row as first created.
InitialResult ==
    [starting_amount   |-> params.starting_amount,
     closing_amount    |-> params.starting_amount,
     total_profit      |-> 0,
     number_of_trades  |-> 0,
     total_returns     |-> 0,
     peak_stock_value  |-> params.starting_amount,
     lowest_stock_value |-> params.starting_amount,
     drawdown          |-> 0]

\* Variant: the emptiness test made after the BacktestResult row is created.
DownloadFailsAfterCreate ==
    /\ pc = "start"
    /\ NumBars = 0
    /\ results' = <<InitialResult>>
    /\ pc' = "raised"
    /\ UNCHANGED <<others, engine, params, closes, i, cash, position, portfolio_value,
                   peak_value, trades_count, trades, snapshots>>

\* The download returned no rows: ValueError before anything is created.
DownloadFails ==
    /\ pc = "start"
    /\ NumBars = 0
    /\ pc' = "raised"
    /\ UNCHANGED <<others, engine, params, closes, i, cash, position, portfolio_value,
                   peak_value, trades_count, results, trades, snapshots>>

\* BacktestResult.objects.create(...) and the initialisation of the loop state.
CreateBacktest ==
    /\ pc = "start"
    /\ NumBars > 0
    /\ results' = <<InitialResult>>
    /\ cash' = StartingTicks
    /\ position' = NoPosition
    /\ portfolio_value' = StartingTicks
    /\ peak_value' = StartingTicks
    /\ trades_count' = 0
    /\ i' = 1
    /\ pc' = "loop"
    /\ UNCHANGED <<others, engine, params, closes, trades, snapshots>>

\* ------------------------------------------------------- one bar of the loop
ClosePrice == closes[i]

\* Variant: the held shares valued at their entry price, not at the bar's close.
CurrentValueAtEntry ==
    IF position # NoPosition
    THEN cash + position.quantity * position.entry_price
    ELSE cash

\* portfolio_value as the loop computes it at the top of a bar.
CurrentValue ==
    IF position # NoPosition
    THEN cash + position.quantity * ClosePrice
    ELSE cash

\* Variant: the peak follows the current value instead of its running maximum.
CurrentPeakUnguarded == CurrentValue

\* peak_value after "if portfolio_value > peak_value".
CurrentPeak ==
    IF CurrentValue > peak_value THEN CurrentValue ELSE peak_value

\* Variant: the decline measured against the current value, not the peak.
DrawdownOverValue(peak, value) ==
    IF value > 0 THEN PctRound2(peak - value, value) ELSE 0

\* round(drawdown, 2) with drawdown = (peak - value) / peak * 100 if peak > 0
\* else 0, in 0.01 %.
DrawdownPct(peak, value) ==
    IF peak > 0 THEN PctRound2(peak - value, peak) ELSE 0

\* The snapshot rows a run executing at the same time has created so far.
ConcurrentRows == IF Len(others) > 1 THEN others[2].snapshots ELSE <<>>

\* Variant: the rows of every backtest by date, the concurrent run's last.
PrevSnapshotsAllBacktests == snapshots \o ConcurrentRows

\* prev_snapshots, oldest first: the rows with backtest=backtest.
PrevSnapshots == snapshots

\* Variant: the latest snapshot by date of any backtest, the filter dropped.
PrevValueAnyBacktest ==
    IF others # <<>> /\ others[1].snapshots # <<>>
    THEN others[1].snapshots[Len(others[1].snapshots)].total_portfolio_value * Scale
    ELSE snapshots[Len(snapshots)].total_portfolio_value * Scale

\* total_portfolio_value of the latest snapshot of this run, in ticks:
\* filter(backtest=backtest) leaves the rows of other runs out.
PrevValue == PrevSnapshots[Len(PrevSnapshots)].total_portfolio_value * Scale

\* i > 0 and prev_snapshots.exists(), in the backend engine.
HasPrevSnapshot == engine = "backend" /\ i > 1 /\ Len(PrevSnapshots) > 0

\* daily_return as stored (DecimalField, 2 places), in 0.01 %.
DailyReturn ==
    IF HasPrevSnapshot
    THEN PctRound2(CurrentValue - PrevValue, PrevValue)
    ELSE 0

\* (portfolio_value - prev_value) / prev_value with prev_value = 0.
DailyReturnFails == HasPrevSnapshot /\ PrevValue = 0

\* Variant: the number of shares held instead of the number of stocks.
OpenPositionsShares == position.quantity

\* open_positions_count = 1 if position is not None else 0
OpenPositionsCount == IF position # NoPosition THEN 1 ELSE 0

NewSnapshot ==
    [date                  |-> i,
     total_portfolio_value |-> Round2(CurrentValue),
     cash_balance          |-> Round2(cash),
     daily_return          |-> DailyReturn,
     peak_portfolio_value  |-> Round2(CurrentPeak),
     drawdown              |-> DrawdownPct(CurrentPeak, CurrentValue),
     open_positions_count  |-> OpenPositionsCount]

\* Valuation of the bar and DailyPortfolioSnapshot.objects.create(...).
Valuate ==
    /\ portfolio_value' = CurrentValue
    /\ peak_value' = CurrentPeak
    /\ snapshots' = Append(snapshots, NewSnapshot)

\* The bar is done: the next iteration, or the code after the loop.
Advance ==
    /\ i' = i + 1
    /\ pc' = IF i = NumBars THEN "close" ELSE "loop"

\* A bar whose moving averages are defined and whose snapshot can be created.
ValuedBar == pc = "loop" /\ ~IsNaNRow(i) /\ ~DailyReturnFails

StopPriceHit ==
    100 * ClosePrice <= position.entry_price * (100 - params.stop_loss_percentage)

TakeProfitHit ==
    100 * ClosePrice >= position.entry_price * (100 + params.take_profit_percentage)

RiskHit == StopPriceHit \/ TakeProfitHit

\* Variant: entry_date and exit_date passed the wrong way round.
TradeRowSwapped(d, p) ==
    [entry_date  |-> d,
     entry_price |-> Round2(position.entry_price),
     quantity    |-> position.quantity,
     exit_date   |-> position.entry_date,
     exit_price  |-> Round2(p)]

\* The Trade row created when the held position is sold on date d at price p.
TradeRow(d, p) ==
    [entry_date  |-> position.entry_date,
     entry_price |-> Round2(position.entry_price),
     quantity    |-> position.quantity,
     exit_date   |-> d,
     exit_price  |-> Round2(p)]

\* Variant: the sale forgets "trades_count += 1".
SellUncounted(d, p) ==
    /\ cash' = cash + position.quantity * p
    /\ trades' = Append(trades, TradeRow(d, p))
    /\ trades_count' = trades_count

\* Selling the held position at price p on date d: cash, ledger, counter.
Sell(d, p) ==
    /\ cash' = cash + position.quantity * p
    /\ trades' = Append(trades, TradeRow(d, p))
    /\ trades_count' = trades_count + 1

\* "if pd.isna(SMA_short) or pd.isna(SMA_long): continue"
SkipNaNBar ==
    /\ pc = "loop"
    /\ IsNaNRow(i)
    /\ Advance
    /\ UNCHANGED <<others, engine, params, closes, cash, position, portfolio_value,
                   peak_value, trades_count, results, trades, snapshots>>

\* ZeroDivisionError in the daily return: logged and re-raised.
SnapshotFails ==
    /\ pc = "loop"
    /\ ~IsNaNRow(i)
    /\ DailyReturnFails
    /\ portfolio_value' = CurrentValue
    /\ peak_value' = CurrentPeak
    /\ pc' = "raised"
    /\ UNCHANGED <<others, engine, params, closes, i, cash, position, trades_count,
                   results, trades, snapshots>>

\* entry_price * (1 - Decimal / 100): TypeError, after the bar's snapshot.
StopCheckTypeError ==
    /\ ValuedBar
    /\ position # NoPosition
    /\ PercentagesAreDecimal
    /\ Valuate
    /\ pc' = "raised"
    /\ UNCHANGED <<others, engine, params, closes, i, cash, position, trades_count,
                   results, trades>>

\* Variant: the risk exit without its "continue": the crossover test runs on
\* the same bar, with the position just closed.
RiskExitNoContinue ==
    /\ pc = "loop" /\ ~IsNaNRow(i) /\ ~DailyReturnFails
    /\ position # NoPosition
    /\ ~PercentagesAreDecimal
    /\ 100 * ClosePrice <= position.entry_price * (100 - params.stop_loss_percentage)
       \/ 100 * ClosePrice >= position.entry_price * (100 + params.take_profit_percentage)
    /\ Valuate
    /\ trades' = Append(trades, TradeRow(i, ClosePrice))
    /\ trades_count' = trades_count + 1
    /\ LET sold == cash + position.quantity * ClosePrice
           shares == IntDiv(sold, ClosePrice)
           buys == /\ i > 1 /\ ~IsNaNRow(i - 1)
                   /\ ~ShortAboveLong(i - 1) /\ ShortAboveLong(i)
                   /\ shares > 0
       IN  IF buys
           THEN /\ position' = [quantity |-> shares, entry_price |-> ClosePrice,
                                entry_date |-> i]
                /\ cash' = sold - shares * ClosePrice
           ELSE /\ position' = NoPosition
                /\ cash' = sold
    /\ Advance
    /\ UNCHANGED <<others, engine, params, closes, results>>

\* Stop-loss / take-profit: sell at the close and "continue".
RiskExit ==
    /\ ValuedBar
    /\ position # NoPosition
    /\ ~PercentagesAreDecimal
    /\ RiskHit
    /\ Valuate
    /\ Sell(i, ClosePrice)
    /\ position' = NoPosition
    /\ Advance
    /\ UNCHANGED <<others, engine, params, closes, results>>

\* The bar reaches "Check for crossover signals".
ReachesCrossover ==
    /\ ValuedBar
    /\ position # NoPosition => (~PercentagesAreDecimal /\ ~RiskHit)

\* i > 0 and the previous row has both averages.
CrossoverComputable == i > 1 /\ ~IsNaNRow(i - 1)

\* Variant: the entry test without "position is None".
GoldenCrossAnyState ==
    /\ ~ShortAboveLong(i - 1)
    /\ ShortAboveLong(i)

\* Variant: the previous short average strictly below the long one.
GoldenCrossStrict ==
    /\ ShortBelowLong(i - 1)
    /\ ShortAboveLong(i)
    /\ position = NoPosition

\* prev_short <= prev_long and curr_short > curr_long and position is None
GoldenCrossCond ==
    /\ ~ShortAboveLong(i - 1)
    /\ ShortAboveLong(i)
    /\ position = NoPosition

DeathCrossCond ==
    /\ ~ShortBelowLong(i - 1)
    /\ ShortBelowLong(i)
    /\ position # NoPosition

\* Variant: the share count rounded up instead of truncated.
SharesToBuyRoundedUp == IntDiv(cash + ClosePrice - 1, ClosePrice)

\* shares_to_buy = int(cash / current_price)
SharesToBuy == IntDiv(cash, ClosePrice)

\* Variant: a previous row without averages counts as short <= long, so the
\* first valued bar buys when its short average is above its long one.
CrossoverSkippedAsCross ==
    /\ ReachesCrossover
    /\ ~CrossoverComputable
    /\ Valuate
    /\ IF ShortAboveLong(i) /\ position = NoPosition /\ SharesToBuy > 0
       THEN /\ position' = [quantity |-> SharesToBuy, entry_price |-> ClosePrice,
                            entry_date |-> i]
            /\ cash' = cash - SharesToBuy * ClosePrice
       ELSE UNCHANGED <<cash, position>>
    /\ Advance
    /\ UNCHANGED <<others, engine, params, closes, trades_count, results, trades>>

\* First bar of the series, or NaN averages in the previous row: no signal.
CrossoverSkipped ==
    /\ ReachesCrossover
    /\ ~CrossoverComputable
    /\ Valuate
    /\ Advance
    /\ UNCHANGED <<others, engine, params, closes, cash, position, trades_count,
                   results, trades>>

\* Variant: the purchase spends all the cash, whatever the shares cost.
GoldenCrossBuyAllCash ==
    /\ ReachesCrossover
    /\ CrossoverComputable
    /\ GoldenCrossCond
    /\ SharesToBuy > 0
    /\ Valuate
    /\ position' = [quantity |-> SharesToBuy, entry_price |-> ClosePrice,
                    entry_date |-> i]
    /\ cash' = 0
    /\ Advance
    /\ UNCHANGED <<others, engine, params, closes, trades_count, results, trades>>

\* Golden cross with cash for at least one share: buy.
GoldenCrossBuy ==
    /\ ReachesCrossover
    /\ CrossoverComputable
    /\ GoldenCrossCond
    /\ SharesToBuy > 0
    /\ Valuate
    /\ position' = [quantity |-> SharesToBuy, entry_price |-> ClosePrice,
                    entry_date |-> i]
    /\ cash' = cash - SharesToBuy * ClosePrice
    /\ Advance
    /\ UNCHANGED <<others, engine, params, closes, trades_count, results, trades>>

\* Golden cross with shares_to_buy = 0: nothing is bought.
GoldenCrossNoShares ==
    /\ ReachesCrossover
    /\ CrossoverComputable
    /\ GoldenCrossCond
    /\ ~(SharesToBuy > 0)
    /\ Valuate
    /\ Advance
    /\ UNCHANGED <<others, engine, params, closes, cash, position, trades_count,
                   results, trades>>

\* Death cross while holding: sell at the close.
DeathCross ==
    /\ ReachesCrossover
    /\ CrossoverComputable
    /\ ~GoldenCrossCond
    /\ DeathCrossCond
    /\ Valuate
    /\ Sell(i, ClosePrice)
    /\ position' = NoPosition
    /\ Advance
    /\ UNCHANGED <<others, engine, params, closes, results>>

NoSignal ==
    /\ ReachesCrossover
    /\ CrossoverComputable
    /\ ~GoldenCrossCond
    /\ ~DeathCrossCond
    /\ Valuate
    /\ Advance
    /\ UNCHANGED <<others, engine, params, closes, cash, position, trades_count,
                   results, trades>>

\* ------------------------------------------------------------ after the loop
\* Variant: the first row of the series instead of the last (iloc[0]).
FirstPrice == closes[1]

FinalPrice == closes[NumBars]

\* Variant: the date of the row before the last one (index[-2]).
FinalDateBeforeLast == NumBars - 1

\* "stock_data.index[-1]": the date of the final bar.
FinalDate == NumBars

\* Variant: the final sale records its Trade without crediting the cash.
CloseRemainingPositionNoCredit ==
    /\ pc = "close"
    /\ position # NoPosition
    /\ trades' = Append(trades, TradeRow(FinalDate, FinalPrice))
    /\ trades_count' = trades_count + 1
    /\ pc' = "update"
    /\ UNCHANGED <<others, engine, params, closes, i, cash, position,
                   portfolio_value, peak_value, results, snapshots>>

\* "Close any remaining position": the position dict itself is left as it is.
CloseRemainingPosition ==
    /\ pc = "close"
    /\ position # NoPosition
    /\ Sell(FinalDate, FinalPrice)
    /\ pc' = "update"
    /\ UNCHANGED <<others, engine, params, closes, i, position, portfolio_value,
                   peak_value, results, snapshots>>

NoRemainingPosition ==
    /\ pc = "close"
    /\ position = NoPosition
    /\ pc' = "update"
    /\ UNCHANGED <<others, engine, params, closes, i, cash, position, portfolio_value,
                   peak_value, trades_count, results, trades, snapshots>>

\* profit / float(starting_amount) or (peak - final) / peak divides by zero.
UpdateDivides == StartingTicks = 0 \/ peak_value = 0

\* lowest_stock_value: min(portfolio_value, starting_amount) of the last bar.
LowestStockValue == Round2(Min(portfolio_value, StartingTicks))

\* Variant: the fall below the starting amount instead of below the peak.
FinalDrawdownFromStart == PctRound2(StartingTicks - cash, StartingTicks)

\* drawdown of the result: ((peak_value - final_value) / peak_value) * 100.
FinalDrawdown == PctRound2(peak_value - cash, peak_value)

\* Variant: the return taken relative to the final value.
TotalReturnsOverFinal == PctRound2(cash - StartingTicks, cash)

\* round(returns, 2) with returns = (profit / starting_amount) * 100, in 0.01 %.
TotalReturns == PctRound2(cash - StartingTicks, StartingTicks)

FinalResult ==
    [starting_amount   |-> params.starting_amount,
     closing_amount    |-> Round2(cash),
     total_profit      |-> Round2(cash - StartingTicks),
     number_of_trades  |-> trades_count,
     total_returns     |-> TotalReturns,
     peak_stock_value  |-> Round2(peak_value),
     lowest_stock_value |-> LowestStockValue,
     drawdown          |-> FinalDrawdown]

\* "Update backtest results" and backtest.save().
UpdateResults ==
    /\ pc = "update"
    /\ ~UpdateDivides
    /\ results' = <<FinalResult>>
    /\ pc' = "done"
    /\ UNCHANGED <<others, engine, params, closes, i, cash, position, portfolio_value,
                   peak_value, trades_count, trades, snapshots>>

\* ZeroDivisionError before backtest.save(): the row keeps its initial values.
UpdateResultsFails ==
    /\ pc = "update"
    /\ UpdateDivides
    /\ pc' = "raised"
    /\ UNCHANGED <<others, engine, params, closes, i, cash, position, portfolio_value,
                   peak_value, trades_count, results, trades, snapshots>>

Next ==
    \/ DownloadFails
    \/ CreateBacktest
    \/ SkipNaNBar
    \/ SnapshotFails
    \/ StopCheckTypeError
    \/ RiskExit
    \/ CrossoverSkipped
    \/ GoldenCrossBuy
    \/ GoldenCrossNoShares
    \/ DeathCross
    \/ NoSignal
    \/ CloseRemainingPosition
    \/ NoRemainingPosition
    \/ UpdateResults
    \/ UpdateResultsFails

Spec == Init /\ [][Next]_vars

\* ------------------------------------------------------- Trade.get_profit
\* get_profit() of a closed Trade row, in cents: the prices are the stored
\* ones, 2 decimals each.
TradeProfit(t) == (t.exit_price - t.entry_price) * t.quantity

\* The sum of get_profit() over the first n rows of the ledger.
RECURSIVE SumProfits(_, _)
SumProfits(t, n) ==
    IF n = 0 THEN 0 ELSE TradeProfit(t[n]) + SumProfits(t, n - 1)

\* ------------------------------------------------------------- a second run
\* The rows a finished (or failed) run leaves in the tables, and how it ended.
RowsOfRun ==
    [results |-> results, trades |-> trades, snapshots |-> snapshots,
     ended |-> pc]

\* _execute_backtest is called again with the same params on the same series:
\* the first run's rows stay in the tables, the locals start afresh.
RunAgain ==
    /\ pc \in {"done", "raised"}
    /\ others = <<>>
    /\ others' = <<RowsOfRun>>
    /\ pc' = "start"
    /\ i' = 0
    /\ cash' = 0
    /\ position' = NoPosition
    /\ portfolio_value' = 0
    /\ peak_value' = 0
    /\ trades_count' = 0
    /\ results' = <<>>
    /\ trades' = <<>>
    /\ snapshots' = <<>>
    /\ UNCHANGED <<engine, params, closes>>

NextRerun == Next \/ RunAgain

SpecRerun == Init /\ [][NextRerun]_vars

\* ------------------------------------------------- the two engines
\* What a run leaves behind: its rows, how it ended and its final locals.
RowsAndLocalsOfRun ==
    [results |-> results, trades |-> trades, snapshots |-> snapshots,
     ended |-> pc, cash |-> cash, position |-> position,
     peak_value |-> peak_value]

\* The same params and bars are handed to _execute_backtest of the other
\* views.py, after the first engine has finished.
RunOtherEngine ==
    /\ pc \in {"done", "raised"}
    /\ others = <<>>
    /\ others' = <<RowsAndLocalsOfRun>>
    /\ engine' = IF engine = "backend" THEN "legacy" ELSE "backend"
    /\ pc' = "start"
    /\ i' = 0
    /\ cash' = 0
    /\ position' = NoPosition
    /\ portfolio_value' = 0
    /\ peak_value' = 0
    /\ trades_count' = 0
    /\ results' = <<>>
    /\ trades' = <<>>
    /\ snapshots' = <<>>
    /\ UNCHANGED <<params, closes>>

NextEngines == Next \/ RunOtherEngine

SpecEngines == Init /\ [][NextEngines]_vars

\* ---------------------------------------------------- a concurrent run
\* Another invocation of _execute_backtest (another request, another symbol)
\* takes a step between two steps of this run.  Its cash, position, peak and
\* counters are locals of that invocation; what this run can see of it are
\* the rows it creates, here its BacktestResult and its next snapshot.
OtherRunStep ==
    /\ others # <<>>
    /\ pc \in {"start", "loop", "close", "update"}
    /\ Len(ConcurrentRows) < MaxOtherRows
    /\ \E v \in OtherValues :
          others' =
            <<others[1],
              [results |-> <<InitialResult>>,
               trades |-> <<>>,
               snapshots |-> Append(ConcurrentRows,
                   [date                  |-> NumBars + Len(ConcurrentRows) + 1,
                    total_portfolio_value |-> v,
                    cash_balance          |-> v,
                    daily_return          |-> 0,
                    peak_portfolio_value  |-> v,
                    drawdown              |-> 0,
                    open_positions_count  |-> 0]),
               ended |-> "loop"]>>
    /\ UNCHANGED <<engine, params, closes, pc, i, cash, position,
                   portfolio_value, peak_value, trades_count, results, trades,
                   snapshots>>

\* The run alone, then the same run again with another run's steps between
\* its own, over the series of at most MaxBars - 2 bars.
InitInterleaved ==
    /\ engine \in Engines
    /\ SmallInputsUpTo(MaxBars - 2)
    /\ NotStarted
    /\ others = <<>>

NextInterleaved == Next \/ RunAgain \/ OtherRunStep

SpecInterleaved == InitInterleaved /\ [][NextInterleaved]_vars

\* ================================================================= properties
Held == position # NoPosition

\* Shares held when the bar is valued (0 when flat).
HeldQuantity == IF Held THEN position.quantity ELSE 0

LastSnapshot(s) == s[Len(s)]

LastTrade(t) == t[Len(t)]

\* The step creates the snapshot of bar i.
SnapshotTaken == Len(snapshots') = Len(snapshots) + 1

LoopOver == pc \in {"close", "update", "done"}

Abs(x) == IF x >= 0 THEN x ELSE -x

SnapshotValues == {snapshots[k].total_portfolio_value : k \in 1..Len(snapshots)}

SnapshotDrawdowns == {snapshots[k].drawdown : k \in 1..Len(snapshots)}

\* ------------------------------------------------------------------------ C1
\* C1: on every bar on which a position is held and the close is at or below
\* the stop price or at or above the take-profit price, the position is sold
\* at that close, exactly one Trade is recorded, the bar ends flat and nothing
\* is bought on that bar.
C1_RiskExitOnEveryHit ==
    [][(pc = "loop" /\ Held /\ RiskHit) =>
          /\ position' = NoPosition
          /\ cash' = cash + position.quantity * closes[i]
          /\ trades' = Append(trades,
                 [entry_date  |-> position.entry_date,
                  entry_price |-> Round2(position.entry_price),
                  quantity    |-> position.quantity,
                  exit_date   |-> i,
                  exit_price  |-> Round2(closes[i])])
          /\ i' = i + 1]_vars

C3_SnapshotPerBar == LoopOver => Len(snapshots) = Len(closes)

\* ------------------------------------------------------------------------ C4
\* C4 as stated: in every snapshot, the recorded cash_balance plus quantity *
\* close equals the recorded total_portfolio_value exactly (in ticks).
C4_RecordedFieldsAddUp ==
    [][SnapshotTaken =>
          LastSnapshot(snapshots').cash_balance * Scale
              + HeldQuantity * closes[i]
            = LastSnapshot(snapshots').total_portfolio_value * Scale]_vars

\* C4, amended: when a snapshot is taken, the engine's portfolio value is
\* exactly cash + quantity * close for the cash and position before the bar's
\* exit or entry; the snapshot records that value and that cash rounded to 2
\* decimals, so the recorded fields add up to within 0.01.
C4_ValueIsCashPlusHolding ==
    [][SnapshotTaken =>
          /\ portfolio_value' = cash + HeldQuantity * closes[i]
          /\ LastSnapshot(snapshots').total_portfolio_value
                 = Round2(cash + HeldQuantity * closes[i])
          /\ LastSnapshot(snapshots').cash_balance = Round2(cash)
          /\ LastSnapshot(snapshots').open_positions_count
                 = (IF Held THEN 1 ELSE 0)
          /\ Abs(LastSnapshot(snapshots').cash_balance * Scale
                     + HeldQuantity * closes[i]
                     - LastSnapshot(snapshots').total_portfolio_value * Scale)
                 <= Scale]_vars

\* A snapshot taken while shares were held and worth more than they cost.
C4_Witness ==
    \E k \in 1..Len(snapshots) :
        /\ snapshots[k].open_positions_count = 1
        /\ snapshots[k].total_portfolio_value > params.starting_amount

\* ------------------------------------------------------------------------ C5
\* C5: across the snapshots of a run the recorded peak never decreases, is at
\* least the starting amount and at least the snapshot's portfolio value.
C5_MonotonicPeak ==
    \A k \in 1..Len(snapshots) :
        /\ snapshots[k].peak_portfolio_value >= snapshots[k].total_portfolio_value
        /\ snapshots[k].peak_portfolio_value >= params.starting_amount
        /\ k > 1 => snapshots[k].peak_portfolio_value
                        >= snapshots[k - 1].peak_portfolio_value

\* The peak rose above the starting amount and the value then fell below it.
C5_Witness ==
    \E k \in 1..Len(snapshots) :
        /\ snapshots[k].peak_portfolio_value > params.starting_amount
        /\ snapshots[k].total_portfolio_value < snapshots[k].peak_portfolio_value

C7_SinglePosition ==
    /\ [](\A k \in 1..Len(snapshots) :
              snapshots[k].open_positions_count \in {0, 1})
    /\ [][Held => (position' = position \/ position' = NoPosition)]_vars

\* A golden cross is read while a position is held.
C7_Witness ==
    /\ pc = "loop"
    /\ Held
    /\ CrossoverComputable
    /\ ~ShortAboveLong(i - 1)
    /\ ShortAboveLong(i)

\* ------------------------------------------------------------------------ C8
\* C8: every closing of a position (risk exit, death cross, liquidation after
\* the last bar) appends exactly one Trade with the position's entry date,
\* entry price (stored to 2 decimals) and quantity; no other step, an entry
\* included, changes the ledger; number_of_trades of a finished run is the
\* number of its Trades.
C8_OneTradePerExit ==
    /\ [](/\ trades_count = Len(trades)
          /\ pc = "done" => results[1].number_of_trades = Len(trades))
    /\ [][IF Held /\ (position' = NoPosition \/ pc = "close")
          THEN /\ Len(trades') = Len(trades) + 1
               /\ SubSeq(trades', 1, Len(trades)) = trades
               /\ LastTrade(trades').entry_date = position.entry_date
               /\ LastTrade(trades').entry_price = Round2(position.entry_price)
               /\ LastTrade(trades').quantity = position.quantity
          ELSE trades' = trades]_vars

\* A finished run with a trade closed inside the loop and one closed after it.
C8_Witness ==
    /\ pc = "done"
    /\ Len(trades) = 2
    /\ trades[1].exit_date < Len(closes)

\* ------------------------------------------------------------------------ C9
\* C9: no Trade of the ledger has an exit date before its entry date.
C9_ExitNotBeforeEntry ==
    \A k \in 1..Len(trades) : trades[k].exit_date >= trades[k].entry_date

\* A Trade held over at least one bar.
C9_Witness ==
    \E k \in 1..Len(trades) : trades[k].exit_date > trades[k].entry_date

\* ----------------------------------------------------------------------- C10
\* C10: in the result of a completed run, lowest_stock_value is the minimum
\* recorded portfolio value and drawdown the maximum recorded drawdown over
\* the run's snapshots.
C10_TroughAndMaxDrawdown ==
    (pc = "done" /\ Len(snapshots) > 0) =>
        /\ \A v \in SnapshotValues : results[1].lowest_stock_value <= v
        /\ results[1].lowest_stock_value \in SnapshotValues
        /\ \A d \in SnapshotDrawdowns : results[1].drawdown >= d
        /\ results[1].drawdown \in SnapshotDrawdowns

C13_StopLossOnFirstHit ==
    [][(pc = "loop" /\ Held) =>
          IF 100 * closes[i] <= position.entry_price * (100 - params.stop_loss_percentage)
          THEN /\ position' = NoPosition
               /\ Len(trades') = Len(trades) + 1
               /\ trades'[Len(trades')].exit_date = i
               /\ trades'[Len(trades')].entry_date = position.entry_date
          ELSE position' = NoPosition =>
                  \/ 100 * closes[i] >= position.entry_price * (100 + params.take_profit_percentage)
                  \/ ShortBelowLong(i)]_vars

\* ---------------------------------------------------------------- C14
\* C14: on a golden-cross bar reached without a position and with less cash
\* than the bar's close, nothing is bought: the bar leaves the position
\* empty, the cash and the Trade rows unchanged; and no Trade row ever has a
\* quantity below one share, so none stems from such a bar.
C14_NoSharesNoEntry ==
    /\ [][(/\ pc = "loop"
           /\ ~Held
           /\ i > 1
           /\ SMADefined(params.long_period, i - 1)
           /\ ~ShortAboveLong(i - 1)
           /\ ShortAboveLong(i)
           /\ cash < closes[i]) =>
              /\ position' = NoPosition
              /\ cash' = cash
              /\ trades' = trades]_vars
    /\ [](\A k \in 1..Len(trades) : trades[k].quantity >= 1)

\* The run with 100.00 of cash has gone through its golden cross at a close
\* of 101.00 (bar 3, snapshot taken) and is still flat with its cash intact.
C14_Witness ==
    /\ params.starting_amount = 10000
    /\ NumBars = 3
    /\ closes[3] = 10100 * Scale
    /\ ~ShortAboveLong(2) /\ ShortAboveLong(3)
    /\ i = 4
    /\ Len(snapshots) = 2
    /\ position = NoPosition
    /\ cash = StartingTicks
    /\ trades = <<>>

\* ---------------------------------------------------------------- C15
\* C15: the first snapshot of a run has daily_return 0, and every later one
\* has (portfolio_value - previous) / previous * 100 to 2 decimals, previous
\* being the total_portfolio_value recorded in the run's preceding snapshot.
C15_DailyReturnFromPreviousSnapshot ==
    [][Len(snapshots') = Len(snapshots) + 1 =>
          IF snapshots = <<>>
          THEN snapshots'[1].daily_return = 0
          ELSE LET previous == snapshots[Len(snapshots)].total_portfolio_value * Scale
               IN  previous # 0 =>
                       snapshots'[Len(snapshots')].daily_return
                          = PctRound2(portfolio_value' - previous, previous)]_vars

C17_EmptySeriesFailsCleanly ==
    NumBars = 0 =>
        /\ pc \in {"start", "raised"}
        /\ results = <<>>
        /\ trades = <<>>
        /\ snapshots = <<>>

\* A run over an empty series after its ValueError.
C17_Witness == NumBars = 0 /\ pc = "raised"

\* ---------------------------------------------------------------- C18
\* C18: a run whose short or long window or whose starting amount is not
\* positive is rejected before the loop: it never processes a bar and never
\* has a BacktestResult, Trade or DailyPortfolioSnapshot row.  (A start date
\* after the end date selects no bars: that is the empty series.)
C18_InvalidConfigurationRejected ==
    (\/ params.short_period <= 0
     \/ params.long_period <= 0
     \/ params.starting_amount <= 0) =>
        /\ pc \in {"start", "raised"}
        /\ i = 0
        /\ results = <<>>
        /\ trades = <<>>
        /\ snapshots = <<>>

\* ---------------------------------------------------------------- C19
\* C19: after _execute_backtest has raised, none of the run's BacktestResult,
\* Trade and DailyPortfolioSnapshot rows exist; after it has returned, its
\* summarised BacktestResult row exists with every Trade counted.
C19_FailureIsAtomic ==
    /\ pc = "raised" =>
          /\ results = <<>>
          /\ trades = <<>>
          /\ snapshots = <<>>
    /\ pc = "done" =>
          /\ Len(results) = 1
          /\ results[1].number_of_trades = Len(trades)

C21_NoFailurePartWay ==
    /\ pc = "raised" => i = 0
    /\ pc = "done" => i = NumBars + 1

C24_EntryIffGoldenCross ==
    [][pc = "loop" =>
          LET enters ==
                  /\ ~Held
                  /\ i > 1
                  /\ ~IsNaNRow(i - 1)
                  /\ ~IsNaNRow(i)
                  /\ ~ShortAboveLong(i - 1)
                  /\ ShortAboveLong(i)
                  /\ cash \div closes[i] >= 1
          IN  /\ (position' # NoPosition /\ position' # position) <=> enters
              /\ enters =>
                    /\ position' = [quantity |-> cash \div closes[i],
                                    entry_price |-> closes[i],
                                    entry_date |-> i]
                    /\ cash' = cash - (cash \div closes[i]) * closes[i]]_vars

\* A position was entered on the previous bar, on a golden cross whose
\* previous averages were equal, with cash left for less than a share.
C24_Witness ==
    /\ pc = "loop"
    /\ Held
    /\ position.entry_date = i - 1
    /\ ~ShortAboveLong(i - 2)
    /\ ~ShortBelowLong(i - 2)
    /\ cash > 0
    /\ cash < position.entry_price

\* ---------------------------------------------------------------- C25
\* C25: on a bar entered holding on which neither the stop nor the
\* take-profit price is hit, the position is closed if and only if the
\* previous row has both averages, previous short >= previous long and
\* current short < current long; the close credits quantity * close, records
\* one Trade at the bar's close and date and leaves the account flat.  No bar
\* both records a Trade and ends holding.
C25_SignalExitIffDeathCross ==
    /\ [][(/\ pc = "loop"
           /\ Held
           /\ 100 * closes[i] > position.entry_price * (100 - params.stop_loss_percentage)
           /\ 100 * closes[i] < position.entry_price * (100 + params.take_profit_percentage)) =>
              LET exits ==
                      /\ i > 1
                      /\ ~IsNaNRow(i - 1)
                      /\ ~ShortBelowLong(i - 1)
                      /\ ShortBelowLong(i)
              IN  /\ position' = NoPosition <=> exits
                  /\ exits =>
                        /\ cash' = cash + position.quantity * closes[i]
                        /\ trades' = Append(trades,
                               [entry_date  |-> position.entry_date,
                                entry_price |-> Round2(position.entry_price),
                                quantity    |-> position.quantity,
                                exit_date   |-> i,
                                exit_price  |-> Round2(closes[i])])]_vars
    /\ [][pc = "loop" =>
              ~(Len(trades') > Len(trades) /\ position' # NoPosition)]_vars

\* ---------------------------------------------------------------- C26
\* C26: the average over a window of w bars is undefined before the w-th bar
\* and from then on is the mean of that bar's close and the w - 1 closes
\* before it; no position is entered and no Trade is entered or exited on a
\* bar without both averages.  Over the closes 10, 11, 12, 9, 14 with windows
\* 2 and 3 the third bar (index 2) is the first with both averages, and no
\* Trade has a date before it.
C26_AveragesAndWarmUp ==
    /\ \A w \in {params.short_period, params.long_period} :
          \A k \in 1..NumBars :
             /\ SMADefined(w, k) <=> k - 1 >= w - 1
             /\ SMADefined(w, k) =>
                   SMASum(w, k) = IF w = 1 THEN closes[k]
                                  ELSE IF w = 2 THEN closes[k - 1] + closes[k]
                                  ELSE closes[k - 2] + closes[k - 1] + closes[k]
    /\ Held => ~IsNaNRow(position.entry_date)
    /\ \A t \in 1..Len(trades) :
          ~IsNaNRow(trades[t].entry_date) /\ ~IsNaNRow(trades[t].exit_date)
    /\ closes = [k \in 1..5 |-> <<1000, 1100, 1200, 900, 1400>>[k] * Scale] =>
          /\ IsNaNRow(1) /\ IsNaNRow(2) /\ ~IsNaNRow(3)
          /\ \A t \in 1..Len(trades) : trades[t].entry_date >= 3
          /\ \A k \in 1..Len(snapshots) : snapshots[k].date >= 3

\* The run over 10, 11, 12, 9, 14 has returned, with a snapshot for each of
\* the bars 3, 4 and 5.
C26_Witness ==
    /\ closes = [k \in 1..5 |-> <<1000, 1100, 1200, 900, 1400>>[k] * Scale]
    /\ params.short_period = 2
    /\ params.long_period = 3
    /\ pc = "done"
    /\ Len(snapshots) = 3
    /\ snapshots[1].date = 3

\* ---------------------------------------------------------------- C27
\* C27: a bar without its short or its long average leaves cash, position,
\* peak, trade count and Trade rows unchanged; and the first bar with both
\* averages, whose previous row has none, enters and exits nothing.
C27_WarmUpBarsChangeNothing ==
    /\ [][(pc = "loop" /\ IsNaNRow(i)) =>
              UNCHANGED <<cash, position, peak_value, trades_count, trades>>]_vars
    /\ [][(pc = "loop" /\ ~IsNaNRow(i) /\ (i = 1 \/ IsNaNRow(i - 1))) =>
              UNCHANGED <<cash, position, trades_count, trades>>]_vars

\* The first valued bar, with its short average above the long one and cash
\* for a share, has been processed and the account is still flat.
C27_Witness ==
    /\ pc = "loop"
    /\ i = params.long_period + 1
    /\ ShortAboveLong(i - 1)
    /\ cash >= closes[i - 1]
    /\ cash = StartingTicks
    /\ ~Held
    /\ Len(snapshots) = 1

RECURSIVE SumCloseProfits(_, _)
SumCloseProfits(t, n) ==
    IF n = 0 THEN 0
    ELSE t[n].quantity * (closes[t[n].exit_date] - closes[t[n].entry_date])
            + SumCloseProfits(t, n - 1)

RECURSIVE SumQuantities(_, _)
SumQuantities(t, n) ==
    IF n = 0 THEN 0 ELSE t[n].quantity + SumQuantities(t, n - 1)

WithoutDailyReturn(row) == [row EXCEPT !.daily_return = 0]

\* C30: the two engines, run over the same bars with the same params, create
\* the same Trade rows and, but for daily_return, the same snapshot rows bar
\* after bar, end the same way with the same cash, position and peak, and
\* leave the same BacktestResult.
C30_EnginesAgree ==
    others # <<>> =>
        /\ Len(snapshots) <= Len(others[1].snapshots)
        /\ \A k \in 1..Len(snapshots) :
              WithoutDailyReturn(snapshots[k])
                 = WithoutDailyReturn(others[1].snapshots[k])
        /\ Len(trades) <= Len(others[1].trades)
        /\ \A k \in 1..Len(trades) : trades[k] = others[1].trades[k]
        /\ pc \in {"done", "raised"} =>
              /\ pc = others[1].ended
              /\ Len(snapshots) = Len(others[1].snapshots)
              /\ trades = others[1].trades
              /\ results = others[1].results
              /\ cash = others[1].cash
              /\ position = others[1].position
              /\ peak_value = others[1].peak_value

\* ----------------------------------------------------------------------- C31
\* C31: a position opened on bar i is never closed inside the loop (risk exit
\* or death cross) on the same bar i: the step that opens a position records
\* no Trade, and a step of the loop that closes one closes a position opened
\* on an earlier bar.  A Trade whose exit date equals its entry date is
\* recorded only by the liquidation after the loop, for a position opened on
\* the final bar; it is the last Trade of the ledger and its exit price
\* equals its entry price.
C31_NoSameBarExit ==
    /\ [](\A k \in 1..Len(trades) :
            trades[k].exit_date = trades[k].entry_date =>
                /\ k = Len(trades)
                /\ pc \in {"update", "done", "raised"}
                /\ trades[k].entry_date = NumBars
                /\ trades[k].exit_price = trades[k].entry_price
                /\ TradeProfit(trades[k]) = 0)
    /\ [][/\ (~Held /\ position' # NoPosition) =>
                /\ trades' = trades
                /\ position'.entry_date = i
          /\ (pc = "loop" /\ Held /\ position' = NoPosition) =>
                /\ position.entry_date < i
                /\ LastTrade(trades').exit_date > LastTrade(trades').entry_date
          /\ (Len(trades') > Len(trades)
              /\ LastTrade(trades').exit_date = LastTrade(trades').entry_date) =>
                /\ pc = "close"
                /\ position.entry_date = NumBars
                /\ position.entry_price = FinalPrice]_vars

\* A completed run whose first position was closed inside the loop on a later
\* bar than its entry and whose second position, opened on the final bar, was
\* liquidated after the loop on that same bar.
C31_Witness ==
    /\ pc = "done"
    /\ Len(trades) = 2
    /\ trades[1].exit_date > trades[1].entry_date
    /\ trades[2].entry_date = NumBars
    /\ trades[2].exit_date = trades[2].entry_date
====
